---- MODULE Spec2Model ----
(***************************************************************************)
(* Model of ArchiveIQ's request handlers (src/main.py): the auth gate      *)
(* get_current_user, POST /upload (handle_upload) and POST /search         *)
(* (handle_search), together with the state they share: the 'documents'    *)
(* table of the store and the temp_<filename> files of the working         *)
(* directory.                                                              *)
(*                                                                         *)
(* Handlers are coroutines on one event loop: a handler runs without       *)
(* interruption between two awaits.  handle_upload awaits once, at         *)
(* `await file.read()` (line 120, inside the `with open(...)` block);      *)
(* handle_search awaits once, at `await request.form()` (line 176).  Each  *)
(* action below is one such uninterrupted block.                           *)
(*                                                                         *)
(* Text is a sequence of one-character strings.  Python's None is modelled *)
(* by a flag in a record (query) or by the value NoneVal (the sub claim).  *)
(***************************************************************************)
EXTENDS FiniteSets, Integers, Sequences, TLC

\* ---------------------------------------------------------------- bounds
\* number of requests of one run; request r is the r-th to arrive
MaxReqs == 2
\* chunk_size=1000 and chunk_overlap=200 of the text splitter, scaled down
chunk_size == 3
chunk_overlap == 1

\* ------------------------------------------------------ program constants
match_threshold == 50   \* 0.5, as a percentage
match_count == 5

Reqs == 1..MaxReqs

\* ----------------------------------------------------------------- inputs
Users == {"A", "B"}
NoneVal == "<None>"

\* str.endswith
EndsWith(s, suf) ==
    /\ Len(s) >= Len(suf)
    /\ SubSeq(s, Len(s) - Len(suf) + 1, Len(s)) = suf

pdf_suffix == <<".", "p", "d", "f">>
FileNames == { <<"a", ".", "p", "d", "f">>, <<"b", ".", "p", "d", "f">>,
               <<"a", ".", "t", "x", "t">>, <<"a", "p", "d", "f">> }

Whitespace == {" ", "\n"}

\* the bytes of an uploaded file: a PDF with a text, or bytes fitz cannot open
PDF(t) == [pdf |-> TRUE, text |-> t]
Corrupt == [pdf |-> FALSE, text |-> <<>>]
Texts == { <<>>, <<" ", "\n">>, <<"a", "b">>, <<"a", "&", "<", "b">> }
Docs == {Corrupt} \cup {PDF(t) : t \in Texts}

Query(t) == [present |-> TRUE, text |-> t]
NoQuery == [present |-> FALSE, text |-> <<>>]
Queries == {NoQuery, Query(<<>>), Query(<<"a", "&">>), Query(<<"z">>)}

Token(k, s) == [kind |-> k, sub |-> s]
GoodTokens == {Token("valid", u) : u \in Users}
BadTokens == {Token("expired", "A"), Token("malformed", NoneVal),
              Token("wrong_aud", "A"), Token("bad_sig", "A"),
              Token("no_sub", NoneVal), Token("absent", NoneVal)}

Upload(t, f, d) == [kind |-> "upload", token |-> t, filename |-> f, doc |-> d,
                    query |-> NoQuery]
Search(t, q) == [kind |-> "search", token |-> t, filename |-> <<>>, doc |-> Corrupt,
                 query |-> q]
NoInput == [kind |-> "none", token |-> Token("absent", NoneVal), filename |-> <<>>,
            doc |-> Corrupt, query |-> NoQuery]

\* the requests a client may send: every document under every supported name,
\* one document under each unsupported name, one request for each bad token
UploadInputs ==
    {Upload(t, f, d) : t \in GoodTokens, f \in {g \in FileNames : EndsWith(g, pdf_suffix)},
                       d \in Docs}
    \cup {Upload(t, f, PDF(<<"a", "b">>)) : t \in GoodTokens, f \in FileNames}
    \cup {Upload(t, <<"a", ".", "p", "d", "f">>, PDF(<<"a", "b">>)) : t \in BadTokens}
SearchInputs ==
    {Search(t, q) : t \in GoodTokens, q \in Queries}
    \cup {Search(t, Query(<<"a", "&">>)) : t \in BadTokens}

\* ------------------------------------------------------------ responses
\* An HTTP response.  msg is the literal part of the body, name the filename
\* and n the chunk count interpolated in the success message, err the
\* str(e) interpolated in a 500, items the rendered search results.
Resp(st, m) == [status |-> st, msg |-> m, name |-> <<>>, n |-> 0, err |-> "",
                headers |-> "", items |-> <<>>]
NoResp == Resp(0, "")

\* the HTTPException built at lines 50-54
credentials_exception ==
    [Resp(401, "Could not validate credentials") EXCEPT !.headers = "WWW-Authenticate: Bearer"]

\* OAuth2PasswordBearer (line 25) on a request that carries no bearer token
not_authenticated ==
    [Resp(401, "Not authenticated") EXCEPT !.headers = "WWW-Authenticate: Bearer"]

\* --------------------------------------------------------------- auth gate
\* jwt.decode(token, JWT_SECRET, algorithms=["HS256"], audience="authenticated"):
\* raises JWTError (ok = FALSE) or returns the payload, whose "sub" may be absent
jwt_decode(token) ==
    IF token.kind \in {"valid", "no_sub"}
    THEN [ok |-> TRUE, sub |-> IF token.kind = "valid" THEN token.sub ELSE NoneVal]
    ELSE [ok |-> FALSE, sub |-> NoneVal]

Authed(id) == [ok |-> TRUE, id |-> id, resp |-> NoResp]
Rejected(rsp) == [ok |-> FALSE, id |-> NoneVal, resp |-> rsp]

get_current_user_nosubcheck(token) ==
    IF token.kind = "absent" THEN Rejected(not_authenticated)
    ELSE LET payload == jwt_decode(token) IN
         IF ~payload.ok THEN Rejected(credentials_exception)
         ELSE Authed(payload.sub)

get_current_user(token) ==
    IF token.kind = "absent" THEN Rejected(not_authenticated)
    ELSE LET payload == jwt_decode(token) IN
         IF ~payload.ok THEN Rejected(credentials_exception)
         ELSE IF payload.sub = NoneVal THEN Rejected(credentials_exception)
         ELSE Authed(payload.sub)

\* ------------------------------------------------------------ text helpers
RECURSIVE lstrip(_)
lstrip(s) == IF s # <<>> /\ Head(s) \in Whitespace THEN lstrip(Tail(s)) ELSE s

RECURSIVE rstrip(_)
rstrip(s) ==
    IF s # <<>> /\ s[Len(s)] \in Whitespace THEN rstrip(SubSeq(s, 1, Len(s) - 1)) ELSE s

\* str.strip
strip(s) == rstrip(lstrip(s))

\* line 111: file.filename.endswith('.pdf')
is_pdf_nodot(filename) == EndsWith(filename, Tail(pdf_suffix))

is_pdf(filename) == EndsWith(filename, pdf_suffix)

\* line 133: `not full_text.strip()`
is_blank_nostrip(full_text) == full_text = <<>>

is_blank(full_text) == strip(full_text) = <<>>

\* line 179: `not query` (a missing field is None, an empty field is "")
no_query_noneonly(query) == ~query.present

no_query(query) == ~query.present \/ query.text = <<>>

\* RecursiveCharacterTextSplitter(chunk_size, chunk_overlap).split_text on a
\* text without separators: windows of chunk_size characters, each starting
\* chunk_size - chunk_overlap after the previous one
RECURSIVE SplitFrom(_, _)
SplitFrom(t, i) ==
    IF Len(t) - i + 1 <= chunk_size THEN <<SubSeq(t, i, Len(t))>>
    ELSE <<SubSeq(t, i, i + chunk_size - 1)>> \o SplitFrom(t, i + chunk_size - chunk_overlap)

split_text(full_text) ==
    LET t == strip(full_text) IN IF t = <<>> THEN <<>> ELSE SplitFrom(t, 1)

\* model.encode(text).tolist(): the vector of a text, here the set of its characters
encode(text) == {text[i] : i \in 1..Len(text)}

\* str.replace(old, new) for a one-character old
RECURSIVE replace(_, _, _)
replace(s, old, new) ==
    IF s = <<>> THEN <<>>
    ELSE (IF Head(s) = old THEN new ELSE <<Head(s)>>) \o replace(Tail(s), old, new)

\* line 201
escape(content) ==
    replace(replace(content, "<", <<"&", "l", "t", ";">>), ">", <<"&", "g", "t", ";">>)

\* ------------------------------------------------------- ingestion loop
\* a call a request made to a collaborator; i is the chunk index (0: none)
Call(op, i) == [op |-> op, i |-> i]

\* the outcome the environment gives the calls of the loop of one request:
\* all succeed, or the embedding or the insert of chunk `at` raises
Fault(op, at) == [op |-> op, at |-> at]
NoFault == Fault("none", 0)
Faults(n) == {NoFault} \cup {Fault(op, at) : op \in {"embed", "insert"}, at \in 1..n}
FaultText(op) == IF op = "embed" THEN "embedding failed" ELSE "insert failed"

\* lines 150-155: the record handed to supabase.table('documents').insert
row(chunk, embedding, user_id, filename) ==
    [content |-> chunk, embedding |-> embedding, user_id |-> user_id,
     filename |-> filename]

Looped(c, rs, e) == [calls |-> c, rows |-> rs, err |-> e]

\* a loop that swallows the exception of a chunk and goes on with the next
RECURSIVE ingest_skipping(_, _, _, _, _)
ingest_skipping(chunks, k, user_id, filename, fault) ==
    IF k > Len(chunks) THEN Looped(<<>>, <<>>, "")
    ELSE LET rest == ingest_skipping(chunks, k + 1, user_id, filename, fault) IN
         IF fault = Fault("embed", k)
         THEN Looped(<<Call("embed", k)>> \o rest.calls, rest.rows, FaultText("embed"))
         ELSE IF fault = Fault("insert", k)
         THEN Looped(<<Call("embed", k), Call("insert", k)>> \o rest.calls, rest.rows,
                     FaultText("insert"))
         ELSE Looped(<<Call("embed", k), Call("insert", k)>> \o rest.calls,
                     <<row(chunks[k], encode(chunks[k]), user_id, filename)>> \o rest.rows,
                     rest.err)

\* lines 147-155, from chunk k on: the calls made, the records inserted and the
\* text of the exception that ended the loop ("" when it ran to its end)
RECURSIVE ingest(_, _, _, _, _)
ingest(chunks, k, user_id, filename, fault) ==
    IF k > Len(chunks) THEN Looped(<<>>, <<>>, "")
    ELSE IF fault = Fault("embed", k)
    THEN Looped(<<Call("embed", k)>>, <<>>, FaultText("embed"))
    ELSE IF fault = Fault("insert", k)
    THEN Looped(<<Call("embed", k), Call("insert", k)>>, <<>>, FaultText("insert"))
    ELSE LET rest == ingest(chunks, k + 1, user_id, filename, fault) IN
         Looped(<<Call("embed", k), Call("insert", k)>> \o rest.calls,
                <<row(chunks[k], encode(chunks[k]), user_id, filename)>> \o rest.rows,
                rest.err)

\* lines 157-160
upload_success_plusone(filename, chunks) ==
    [Resp(200, "Successfully uploaded") EXCEPT !.name = filename, !.n = Len(chunks) + 1]

upload_success(filename, chunks) ==
    [Resp(200, "Successfully uploaded") EXCEPT !.name = filename, !.n = Len(chunks)]

\* lines 162-166
upload_error(e) == [Resp(500, "An error occurred: ") EXCEPT !.err = e]

unsupported_format == Resp(400, "Only PDF files are supported")
empty_document == Resp(400, "PDF appears to be empty or contains no extractable text")

\* ------------------------------------------------------------- temp files
\* The working directory maps the name temp_<filename> to a file (path, 0:
\* no such name); a file is identified by the request that created it.  A
\* request that opened a name keeps its file open across the await, also
\* when another request truncates or unlinks it meanwhile.
Empty == [state |-> "empty", doc |-> Corrupt]
Gone == [state |-> "gone", doc |-> Corrupt]
Garbled == [state |-> "garbled", doc |-> Corrupt]
Data(d) == [state |-> "data", doc |-> d]

\* line 119: open(temp_file_path, "wb") creates the file or truncates it
open_wb(path, inode, f, r) ==
    IF path[f] = 0
    THEN [path |-> [path EXCEPT ![f] = r], inode |-> [inode EXCEPT ![r] = Empty], fd |-> r]
    ELSE [path |-> path, inode |-> [inode EXCEPT ![path[f]] = Empty], fd |-> path[f]]

\* line 120: buffer.write(bytes) from offset 0, then close.  Over bytes another
\* writer left in the same file the result depends on the two lengths: the new
\* bytes alone, or the new bytes followed by the tail of the old ones.
written(old, d) ==
    IF old.state = "gone" THEN {Gone}
    ELSE IF old.state = "empty" THEN {Data(d)}
    ELSE {Data(d), Garbled}

Opened(t) == [ok |-> TRUE, text |-> t, err |-> ""]
OpenFailed(e) == [ok |-> FALSE, text |-> <<>>, err |-> e]

\* lines 123-127: fitz.open(temp_file_path) and the concatenation of the pages
fitz_open(path, inode, f) ==
    IF path[f] = 0 THEN OpenFailed("no such file")
    ELSE LET c == inode[path[f]] IN
         IF c.state = "data" /\ c.doc.pdf THEN Opened(c.doc.text)
         ELSE OpenFailed("cannot open document")

\* line 130: os.remove(temp_file_path)
os_remove(path, inode, f) ==
    [path |-> [path EXCEPT ![f] = 0], inode |-> [inode EXCEPT ![path[f]] = Gone]]

\* ------------------------------------------------------------------ store
\* similarity of two vectors, as a percentage
similarity(a, b) ==
    IF a \cup b = {} THEN 0 ELSE (100 * Cardinality(a \cap b)) \div Cardinality(a \cup b)

\* the index in S of the best match: highest similarity, oldest record first
Best(table, q, S) ==
    CHOOSE i \in S : \A j \in S :
        \/ similarity(q, table[i].embedding) > similarity(q, table[j].embedding)
        \/ /\ similarity(q, table[i].embedding) = similarity(q, table[j].embedding)
           /\ i <= j

RECURSIVE Ranked(_, _, _)
Ranked(table, q, S) ==
    IF S = {} THEN <<>>
    ELSE LET b == Best(table, q, S) IN <<b>> \o Ranked(table, q, S \ {b})

\* the store's match_documents(query_embedding, match_threshold, match_count,
\* filter_user_id): the records of the caller above the threshold, best first,
\* at most match_count of them, each as (content, similarity)
match_documents(table, q, threshold, count, filter_user_id) ==
    LET S == {i \in 1..Len(table) :
                 /\ table[i].user_id = filter_user_id
                 /\ similarity(q, table[i].embedding) > threshold}
        ranked == Ranked(table, q, S)
        n == IF Len(ranked) < count THEN Len(ranked) ELSE count
    IN [k \in 1..n |-> [content |-> table[ranked[k]].content,
                        similarity |-> similarity(q, table[ranked[k]].embedding)]]

\* an rpc call that ignores the caller
rpc_params_nofilter(query_embedding, user_id) ==
    [query_embedding |-> query_embedding, match_threshold |-> match_threshold,
     match_count |-> match_count, filter_user_id |-> "A"]

\* lines 187-192: the parameters of the rpc call
rpc_params(query_embedding, user_id) ==
    [query_embedding |-> query_embedding, match_threshold |-> match_threshold,
     match_count |-> match_count, filter_user_id |-> user_id]

\* lines 194-211
no_results == Resp(200, "<h3>Search Results:</h3><p>No relevant documents found.</p>")
render(data) ==
    IF data = <<>> THEN no_results
    ELSE [Resp(200, "<h3>Search Results:</h3>") EXCEPT
            !.items = [k \in 1..Len(data) |->
                          [score |-> data[k].similarity, content |-> escape(data[k].content)]]]

\* line 180
no_query_response == Resp(400, "Please enter a search query.")

\* lines 213-217
search_error(e) == [Resp(500, "Search error: ") EXCEPT !.err = e]

\* ------------------------------------------------------- handler blocks
\* what one uninterrupted block of a handler leaves behind
NoOpened == OpenFailed("")
Out(pc_, resp_, calls_, rows_, path_, inode_, fd_, user_id_, opened_, chunks_, rpcs_) ==
    [pc |-> pc_, resp |-> resp_, calls |-> calls_, rows |-> rows_, path |-> path_,
     inode |-> inode_, fd |-> fd_, user_id |-> user_id_, opened |-> opened_,
     chunks |-> chunks_, rpcs |-> rpcs_]

\* handle_upload with its dependency, up to `await file.read()`: lines 48-74, 107-120
upload_arrive(in, path, inode, r) ==
    LET a == get_current_user(in.token) IN
    IF ~a.ok
    THEN Out("done", a.resp, <<>>, <<>>, path, inode, 0, NoneVal, NoOpened, <<>>, <<>>)
    ELSE IF ~is_pdf(in.filename)
    THEN Out("done", unsupported_format, <<>>, <<>>, path, inode, 0, a.id, NoOpened,
             <<>>, <<>>)
    ELSE LET o == open_wb(path, inode, in.filename, r) IN
         Out("reading", NoResp, <<Call("open", 0)>>, <<>>, o.path, o.inode, o.fd, a.id,
             NoOpened, <<>>, <<>>)

\* handle_upload from the return of `await file.read()` to its response: lines
\* 120-166.  c is the content of the request's file after the write, fault the
\* outcome of the loop's calls.
upload_resume(in, user_id, path, inode, fd, c, fault) ==
    LET f == in.filename
        inode1 == [inode EXCEPT ![fd] = c]
        opened == fitz_open(path, inode1, f)
        io == <<Call("write", 0), Call("fitz", 0)>>
    IN IF ~opened.ok
       THEN Out("done", upload_error(opened.err), io, <<>>, path, inode1, fd, user_id,
                opened, <<>>, <<>>)
       ELSE LET fs == os_remove(path, inode1, f) IN
            IF is_blank(opened.text)
            THEN Out("done", empty_document, io \o <<Call("remove", 0)>>, <<>>, fs.path,
                     fs.inode, fd, user_id, opened, <<>>, <<>>)
            ELSE LET chunks == split_text(opened.text)
                     lp == ingest(chunks, 1, user_id, f, fault)
                 IN Out("done",
                        IF lp.err = "" THEN upload_success(f, chunks)
                        ELSE upload_error(lp.err),
                        io \o <<Call("remove", 0), Call("split", 0)>> \o lp.calls,
                        lp.rows, fs.path, fs.inode, fd, user_id, opened, chunks, <<>>)

\* handle_search with its dependency, up to `await request.form()`: lines 48-74, 174-176
search_arrive(in, path, inode) ==
    LET a == get_current_user(in.token) IN
    IF ~a.ok
    THEN Out("done", a.resp, <<>>, <<>>, path, inode, 0, NoneVal, NoOpened, <<>>, <<>>)
    ELSE Out("form", NoResp, <<>>, <<>>, path, inode, 0, a.id, NoOpened, <<>>, <<>>)

SearchFaults == {"none", "embed", "rpc"}

\* handle_search from the return of `await request.form()` to its response: lines
\* 177-217.  fault: which of the two calls raises, if any.
search_resume(in, user_id, table, path, inode, fault) ==
    IF no_query(in.query)
    THEN Out("done", no_query_response, <<>>, <<>>, path, inode, 0, user_id, NoOpened,
             <<>>, <<>>)
    ELSE LET query_embedding == encode(in.query.text)
             params == rpc_params(query_embedding, user_id)
             data == match_documents(table, params.query_embedding,
                                     params.match_threshold, params.match_count,
                                     params.filter_user_id)
         IN IF fault = "embed"
            THEN Out("done", search_error(FaultText("embed")), <<Call("embed", 0)>>, <<>>,
                     path, inode, 0, user_id, NoOpened, <<>>, <<>>)
            ELSE IF fault = "rpc"
            THEN Out("done", search_error("rpc failed"),
                     <<Call("embed", 0), Call("rpc", 0)>>, <<>>, path, inode, 0, user_id,
                     NoOpened, <<>>, <<[params |-> params, ok |-> FALSE, data |-> <<>>]>>)
            ELSE Out("done", render(data), <<Call("embed", 0), Call("rpc", 0)>>, <<>>,
                     path, inode, 0, user_id, NoOpened, <<>>,
                     <<[params |-> params, ok |-> TRUE, data |-> data]>>)

\* ------------------------------------------------------------------ state
VARIABLES
    pc,        \* per request: "idle" (not arrived), "reading", "form", "done"
    inp,       \* per request: what the client sent
    loc,       \* per request: the handler's locals and what it did (user_id,
               \* the result of the extraction, chunks, calls, records inserted,
               \* rpc calls, the file it holds open, the fault it met)
    resp,      \* per request: the response
    store,     \* the rows of the 'documents' table, in insertion order
    path,      \* temp file name -> file (0: none)
    inode      \* file -> content

vars == <<pc, inp, loc, resp, store, path, inode>>

NoLoc == [user_id |-> NoneVal, opened |-> NoOpened, chunks |-> <<>>, calls |-> <<>>,
          rows |-> <<>>, rpcs |-> <<>>, fd |-> 0, fault |-> NoFault, sfault |-> "none"]

Init ==
    /\ pc = [r \in Reqs |-> "idle"]
    /\ inp = [r \in Reqs |-> NoInput]
    /\ loc = [r \in Reqs |-> NoLoc]
    /\ resp = [r \in Reqs |-> NoResp]
    /\ store = <<>>
    /\ path = [f \in FileNames |-> 0]
    /\ inode = [r \in Reqs |-> Gone]

\* the block's outcome o becomes the state of request r
Apply(r, o, fault, sfault) ==
    /\ pc' = [pc EXCEPT ![r] = o.pc]
    /\ resp' = [resp EXCEPT ![r] = o.resp]
    /\ loc' = [loc EXCEPT ![r] =
                 [user_id |-> o.user_id, opened |-> o.opened, chunks |-> o.chunks,
                  calls |-> loc[r].calls \o o.calls, rows |-> o.rows, rpcs |-> o.rpcs,
                  fd |-> o.fd, fault |-> fault, sfault |-> sfault]]
    /\ store' = store \o o.rows
    /\ path' = o.path
    /\ inode' = o.inode

\* requests are numbered in the order they arrive
Arrives(r) == pc[r] = "idle" /\ \A q \in Reqs : q < r => pc[q] # "idle"

UploadArrive(r) ==
    /\ Arrives(r)
    /\ \E in \in UploadInputs :
        /\ inp' = [inp EXCEPT ![r] = in]
        /\ Apply(r, upload_arrive(in, path, inode, r), NoFault, "none")

UploadResume(r) ==
    /\ pc[r] = "reading"
    /\ \E c \in written(inode[loc[r].fd], inp[r].doc) :
       \E fault \in Faults(Len(upload_resume(inp[r], loc[r].user_id, path, inode,
                                             loc[r].fd, c, NoFault).chunks)) :
          Apply(r, upload_resume(inp[r], loc[r].user_id, path, inode, loc[r].fd, c, fault),
                fault, "none")
    /\ UNCHANGED inp

SearchArrive(r) ==
    /\ Arrives(r)
    /\ \E in \in SearchInputs :
        /\ inp' = [inp EXCEPT ![r] = in]
        /\ Apply(r, search_arrive(in, path, inode), NoFault, "none")

SearchResume(r) ==
    /\ pc[r] = "form"
    /\ \E sfault \in IF no_query(inp[r].query) THEN {"none"} ELSE SearchFaults :
          Apply(r, search_resume(inp[r], loc[r].user_id, store, path, inode, sfault),
                NoFault, sfault)
    /\ UNCHANGED inp

Next ==
    \/ \E r \in Reqs : UploadArrive(r)
    \/ \E r \in Reqs : UploadResume(r)
    \/ \E r \in Reqs : SearchArrive(r)
    \/ \E r \in Reqs : SearchResume(r)

Spec == Init /\ [][Next]_vars

\* handle_upload run from its first line to its response in a working
\* directory no other request uses
upload_alone(in, fault) ==
    LET a == upload_arrive(in, [f \in FileNames |-> 0], [r \in {1} |-> Gone], 1) IN
    IF a.pc = "done" THEN a
    ELSE upload_resume(in, a.user_id, a.path, a.inode, a.fd, Data(in.doc), fault)

\* ------------------------------------------------------------- properties
Done(r) == pc[r] = "done"
IsUpload(r) == inp[r].kind = "upload"
IsSearch(r) == inp[r].kind = "search"
ValidToken(r) == inp[r].token.kind = "valid"
Sub(r) == inp[r].token.sub
OnlyWhitespace(t) == \A i \in 1..Len(t) : t[i] \in Whitespace
IsLoopCall(c) == c.op \in {"embed", "insert"}
LoopCalls(r) == SelectSeq(loc[r].calls, IsLoopCall)
\* embed 1, insert 1, embed 2, insert 2, ...
Alternates(cs) ==
    \A j \in 1..Len(cs) :
        cs[j] = IF j % 2 = 1 THEN Call("embed", (j + 1) \div 2) ELSE Call("insert", j \div 2)
InStore(rw) == \E i \in 1..Len(store) : store[i] = rw

\* rs occurs in t, in order
RECURSIVE IsSubseq(_, _)
IsSubseq(rs, t) ==
    IF rs = <<>> THEN TRUE
    ELSE IF t = <<>> THEN FALSE
    ELSE IF Head(rs) = Head(t) THEN IsSubseq(Tail(rs), Tail(t))
    ELSE IsSubseq(rs, Tail(t))

\* C1: owner isolation.  Every record a request inserted carries the subject of
\* that request's token as user_id, every record of the store was inserted
\* that way, every similarity search is issued with filter_user_id equal to
\* the subject of the caller's token, and every result a search got is the
\* content of a record of the caller.
C1_OwnerIsolation ==
    /\ \A r \in Reqs : \A k \in 1..Len(loc[r].rows) :
          ValidToken(r) /\ loc[r].rows[k].user_id = Sub(r)
    /\ \A i \in 1..Len(store) : \E r \in Reqs :
          /\ IsUpload(r) /\ ValidToken(r) /\ store[i].user_id = Sub(r)
          /\ \E k \in 1..Len(loc[r].rows) : loc[r].rows[k] = store[i]
    /\ \A r \in Reqs : \A k \in 1..Len(loc[r].rpcs) :
          /\ ValidToken(r) /\ loc[r].rpcs[k].params.filter_user_id = Sub(r)
          /\ \A j \in 1..Len(loc[r].rpcs[k].data) : \E i \in 1..Len(store) :
                /\ store[i].user_id = Sub(r)
                /\ store[i].content = loc[r].rpcs[k].data[j].content

\* a user searched with a query that matches a record of another user
C1_Witness ==
    \E r \in Reqs :
        /\ Done(r) /\ IsSearch(r) /\ Len(loc[r].rpcs) = 1 /\ loc[r].rpcs[1].ok
        /\ \E i \in 1..Len(store) :
              /\ store[i].user_id # Sub(r)
              /\ similarity(encode(inp[r].query.text), store[i].embedding) > match_threshold

\* C2: non-atomic ingestion, no retry.  When the embedding or the insert of
\* chunk k raised, the request called embed 1, insert 1, ... up to the failing
\* call and nothing after it, the records of chunks 1..k-1 are the ones it
\* inserted and they are in the store, and the response is a 500 carrying the
\* error text.
C2_AbortNoRetry ==
    \A r \in Reqs : (Done(r) /\ IsUpload(r) /\ loc[r].fault.at >= 1) =>
        LET k == loc[r].fault.at
            cs == LoopCalls(r)
        IN /\ k <= Len(loc[r].chunks)
           /\ Len(cs) = IF loc[r].fault.op = "embed" THEN 2 * k - 1 ELSE 2 * k
           /\ Alternates(cs)
           /\ Len(loc[r].rows) = k - 1
           /\ \A j \in 1..(k - 1) :
                 loc[r].rows[j].content = loc[r].chunks[j] /\ InStore(loc[r].rows[j])
           /\ resp[r].status = 500
           /\ resp[r].err = FaultText(loc[r].fault.op)

\* one upload failed at its second chunk with the first one stored, another
\* failed at the first of two chunks
C2_Witness ==
    /\ \E r \in Reqs : Done(r) /\ loc[r].fault.at = 2 /\ Len(loc[r].rows) = 1
                       /\ InStore(loc[r].rows[1])
    /\ \E r \in Reqs : Done(r) /\ loc[r].fault.at = 1 /\ Len(loc[r].chunks) = 2

\* C3: concurrent requests do not interfere.  The response of every upload and
\* the records it inserted are those it produces when it runs alone (with the
\* same outcome of its embedding and insert calls).
C3_NoInterference ==
    \A r \in Reqs : (Done(r) /\ IsUpload(r)) =>
        LET alone == upload_alone(inp[r], loc[r].fault) IN
        resp[r] = alone.resp /\ loc[r].rows = alone.rows

\* C4: auth gate.  A request whose token does not verify ends with a 401 and
\* made no call, inserted nothing, searched nothing and opened no file; for
\* the validation failures (expired, malformed, wrong audience, bad signature,
\* missing subject) the 401 has one detail and one set of headers.  A request
\* that did any of these things holds the owner id of its token.
ValidationFailures == {"expired", "malformed", "wrong_aud", "bad_sig", "no_sub"}
C4_AuthGate ==
    \A r \in Reqs : pc[r] # "idle" =>
        IF ValidToken(r) THEN loc[r].user_id = Sub(r)
        ELSE /\ Done(r)
             /\ resp[r].status = 401
             /\ loc[r].calls = <<>> /\ loc[r].rows = <<>> /\ loc[r].rpcs = <<>>
             /\ loc[r].fd = 0
             /\ inp[r].token.kind \in ValidationFailures =>
                   /\ resp[r].msg = "Could not validate credentials"
                   /\ resp[r].headers = "WWW-Authenticate: Bearer"
                   /\ resp[r].err = "" /\ resp[r].items = <<>>

\* an upload with an expired token and a search with a token without subject
C4_Witness ==
    /\ \E r \in Reqs : Done(r) /\ IsUpload(r) /\ inp[r].token.kind = "expired"
    /\ \E r \in Reqs : Done(r) /\ IsSearch(r) /\ inp[r].token.kind = "no_sub"

\* C5: empty document.  An authenticated upload of a .pdf from which the
\* request extracted an empty or all-whitespace text made no chunker, embedding
\* or insert call, inserted nothing and answered 400 (EmptyDocument).
C5_EmptyDocument ==
    \A r \in Reqs :
        (Done(r) /\ IsUpload(r) /\ loc[r].opened.ok /\ OnlyWhitespace(loc[r].opened.text)) =>
            /\ resp[r].status = 400
            /\ resp[r].msg = "PDF appears to be empty or contains no extractable text"
            /\ \A i \in 1..Len(loc[r].calls) :
                  loc[r].calls[i].op \notin {"split", "embed", "insert"}
            /\ loc[r].rows = <<>>
            /\ loc[r].chunks = <<>>

\* one upload extracted the empty text, another a text of whitespace
C5_Witness ==
    /\ \E r \in Reqs : Done(r) /\ loc[r].opened.ok /\ loc[r].opened.text = <<>>
    /\ \E r \in Reqs : Done(r) /\ loc[r].opened.ok /\ loc[r].opened.text = <<" ", "\n">>

\* C6: empty query.  An authenticated search whose query is missing or empty
\* made no embedding call and no store search, and its response differs from
\* the response of every search with a non-empty query that got zero matches.
C6_EmptyQuery ==
    \A r \in Reqs :
        (Done(r) /\ IsSearch(r) /\ ValidToken(r)
         /\ (~inp[r].query.present \/ inp[r].query.text = <<>>)) =>
            /\ loc[r].calls = <<>> /\ loc[r].rpcs = <<>>
            /\ \A q \in Reqs :
                  (Done(q) /\ IsSearch(q) /\ inp[q].query.text # <<>>
                   /\ Len(loc[q].rpcs) = 1 /\ loc[q].rpcs[1].ok
                   /\ loc[q].rpcs[1].data = <<>>) =>
                      ~(resp[r].status = resp[q].status /\ resp[r].msg = resp[q].msg)

\* a search with the empty query next to a search that matched nothing
C6_Witness ==
    \E r, q \in Reqs :
        /\ Done(r) /\ IsSearch(r) /\ ValidToken(r) /\ inp[r].query = Query(<<>>)
        /\ Done(q) /\ IsSearch(q) /\ inp[q].query.text # <<>>
        /\ Len(loc[q].rpcs) = 1 /\ loc[q].rpcs[1].ok /\ loc[q].rpcs[1].data = <<>>

\* C7: unsupported format.  An authenticated upload whose filename does not end
\* in .pdf is answered 400 (UnsupportedFormat) at once: it opened no file,
\* made no call and inserted nothing, and no temp file of its name exists.
C7_UnsupportedFormat ==
    \A r \in Reqs :
        (pc[r] # "idle" /\ IsUpload(r) /\ ValidToken(r)
         /\ ~EndsWith(inp[r].filename, <<".", "p", "d", "f">>)) =>
            /\ Done(r)
            /\ resp[r].status = 400
            /\ resp[r].msg = "Only PDF files are supported"
            /\ loc[r].calls = <<>> /\ loc[r].rows = <<>> /\ loc[r].fd = 0
            /\ path[inp[r].filename] = 0

\* uploads named "apdf" and "a.txt" were answered
C7_Witness ==
    /\ \E r \in Reqs : Done(r) /\ IsUpload(r) /\ ValidToken(r)
                       /\ inp[r].filename = <<"a", "p", "d", "f">>
    /\ \E r \in Reqs : Done(r) /\ IsUpload(r) /\ ValidToken(r)
                       /\ inp[r].filename = <<"a", ".", "t", "x", "t">>

\* C8: a successful ingestion writes one record per chunk, in order.  When an
\* upload answered 200, the count in the response, the number of records it
\* inserted and the number of chunks agree; record j carries chunk j, its
\* embedding, the caller's owner id and the filename; the records are in the
\* store in that order; and the calls were embed 1, insert 1, embed 2, ...
C8_OneRecordPerChunk ==
    \A r \in Reqs : (Done(r) /\ IsUpload(r) /\ resp[r].status = 200) =>
        LET n == Len(loc[r].chunks) IN
        /\ resp[r].n = n /\ Len(loc[r].rows) = n
        /\ resp[r].name = inp[r].filename
        /\ \A j \in 1..n :
              loc[r].rows[j] = [content |-> loc[r].chunks[j],
                                embedding |-> encode(loc[r].chunks[j]),
                                user_id |-> Sub(r),
                                filename |-> inp[r].filename]
        /\ IsSubseq(loc[r].rows, store)
        /\ Len(LoopCalls(r)) = 2 * n /\ Alternates(LoopCalls(r))

\* an upload of two chunks succeeded
C8_Witness ==
    \E r \in Reqs : Done(r) /\ IsUpload(r) /\ resp[r].status = 200 /\ Len(loc[r].rows) = 2

\* html escaping of every markup-significant character
html_escape(content) ==
    replace(replace(replace(replace(replace(content,
        "&", <<"&", "a", "m", "p", ";">>),
        "<", <<"&", "l", "t", ";">>),
        ">", <<"&", "g", "t", ";">>),
        "\"", <<"&", "q", "u", "o", "t", ";">>),
        "'", <<"&", "#", "3", "9", ";">>)

\* C9: search rendering escapes markup.  The response of a search that got
\* results holds one item per result, in the store's order, and the content
\* of each item is the content of the result with '<', '>', '&' and the quote
\* characters replaced by their escaped forms.
C9_EscapesMarkup ==
    \A r \in Reqs :
        (Done(r) /\ IsSearch(r) /\ Len(loc[r].rpcs) = 1 /\ loc[r].rpcs[1].ok
         /\ loc[r].rpcs[1].data # <<>>) =>
            LET data == loc[r].rpcs[1].data IN
            /\ Len(resp[r].items) = Len(data)
            /\ \A k \in 1..Len(data) :
                  /\ resp[r].items[k].score = data[k].similarity
                  /\ resp[r].items[k].content = html_escape(data[k].content)

\* C10: an upload leaves no state behind except store records.  Once an upload
\* has answered and no other request holds the same temp file open, the file
\* temp_<filename> does not exist.
C10_NoTempFileLeft ==
    \A r \in Reqs :
        (/\ Done(r) /\ IsUpload(r)
         /\ \A q \in Reqs : pc[q] = "reading" => inp[q].filename # inp[r].filename) =>
            path[inp[r].filename] = 0

====
